---- MODULE Spec2Model ----
(***************************************************************************)
(* A model of radarsim's transmitter configuration (src/transmitter.py):   *)
(* Transmitter.__init__ and the validators / processors it calls.          *)
(*                                                                         *)
(* One run of the state machine is one call of the constructor.  Init      *)
(* draws the arguments of the call; the actions are the constructor's      *)
(* stages in program order: RF properties, waveform, one step per channel  *)
(* of the channel loop, and the return.  An exception ends the run: err    *)
(* keeps its kind and pc stays at the stage that raised it.                *)
(*                                                                         *)
(* Values.  A Python / numpy value is a record [k, v, s]:                  *)
(*   k = "none"  None (an absent argument or dictionary key)               *)
(*   k = "num"   a bare number v                                           *)
(*   k = "arr"   a list, tuple or 1-D ndarray with elements s              *)
(*   k = "arr0"  a 0-d ndarray holding v (numpy gives one for              *)
(*               ones_like / zeros_like of a bare number); it is an        *)
(*               ndarray for isinstance, and len() of it raises TypeError  *)
(* Numbers are integers.  The complex number amp * exp(1j * phs/180 * pi)  *)
(* is kept in polar form as the pair <<amp, phs>>.                         *)
(***************************************************************************)
EXTENDS Integers, Sequences, FiniteSets, TLC

VARIABLES args, pc, err, rf_prop, waveform_prop, txch_prop, tx_idx,
          txchannel_prop, returned

vars == <<args, pc, err, rf_prop, waveform_prop, txch_prop, tx_idx,
          txchannel_prop, returned>>

----------------------------------------------------------------------------
(* Bounds of the enumerated arguments.                                     *)

MaxLen == 2

MaxPulses == 3

MaxChannels == 2

----------------------------------------------------------------------------
(* Values.                                                                 *)

None == [k |-> "none", v |-> 0, s |-> <<>>]

Num(x) == [k |-> "num", v |-> x, s |-> <<>>]

Arr(s) == [k |-> "arr", v |-> 0, s |-> s]

Arr0(x) == [k |-> "arr0", v |-> x, s |-> <<>>]

IsNone(x) == x.k = "none"

\* isinstance(x, (list, tuple, np.ndarray))
IsArrayLike(x) == x.k \in {"arr", "arr0"}

\* len(x) is defined for lists, tuples and ndarrays of dimension >= 1 only
HasLen(x) == x.k = "arr"

SeqsUpTo(S, n) == UNION {[1..k -> S] : k \in 0..n}

Const(n, x) == [i \in 1..n |-> x]

RECURSIVE SeqMax(_)
SeqMax(s) ==
  IF Len(s) = 1 THEN s[1]
  ELSE LET m == SeqMax(Tail(s)) IN IF s[1] >= m THEN s[1] ELSE m

RECURSIVE SeqMin(_)
SeqMin(s) ==
  IF Len(s) = 1 THEN s[1]
  ELSE LET m == SeqMin(Tail(s)) IN IF s[1] <= m THEN s[1] ELSE m

\* np.cumsum(s)
RECURSIVE CumSum(_)
CumSum(s) ==
  IF Len(s) = 0 THEN <<>>
  ELSE LET n == Len(s)
           c == CumSum(SubSeq(s, 1, n - 1))
       IN  Append(c, (IF n = 1 THEN 0 ELSE c[n - 1]) + s[n])

\* s - x, elementwise
Shift(s, x) == [i \in 1..Len(s) |-> s[i] - x]

\* a stage's outcome: the dictionary as far as it was filled, and the
\* exception raised ("none" when the stage ran to its end)
Outcome(d, e) == [d |-> d, e |-> e]

----------------------------------------------------------------------------
(* RF properties: __init__ lines 199-202 and validate_rf_prop.             *)

\* variant: pn_power without pn_f is let through
validate_rf_prop_no_power_only(rf) ==
  IF ~IsNone(rf.pn_f) /\ IsNone(rf.pn_power) THEN "ValueError"
  ELSE IF ~IsNone(rf.pn_f) /\ ~IsNone(rf.pn_power)
          /\ Len(rf.pn_f.s) # Len(rf.pn_power.s) THEN "ValueError"
  ELSE "none"

\* the exception validate_rf_prop raises, "none" when it returns
validate_rf_prop(rf) ==
  IF ~IsNone(rf.pn_f) /\ IsNone(rf.pn_power) THEN "ValueError"
  ELSE IF IsNone(rf.pn_f) /\ ~IsNone(rf.pn_power) THEN "ValueError"
  ELSE IF ~IsNone(rf.pn_f) /\ ~IsNone(rf.pn_power)
          /\ Len(rf.pn_f.s) # Len(rf.pn_power.s) THEN "ValueError"
  ELSE "none"

StoreRfProp(a) ==
  [tx_power |-> a.tx_power, pn_f |-> a.pn_f, pn_power |-> a.pn_power]

RfStage ==
  /\ pc = "rf"
  /\ err = "none"
  /\ rf_prop' = StoreRfProp(args)
  /\ LET e == validate_rf_prop(StoreRfProp(args))
     IN  /\ err' = e
         /\ pc' = IF e = "none" THEN "waveform" ELSE "rf"
  /\ UNCHANGED <<args, waveform_prop, txch_prop, tx_idx, txchannel_prop,
                 returned>>

----------------------------------------------------------------------------
(* Waveform: __init__ lines 204-247 and validate_waveform_prop.            *)

\* f as np.array(f), or [f, f] for a bare number
NormalizeF(f) == IF IsArrayLike(f) THEN f ELSE Arr(<<f.v, f.v>>)

\* t as np.array(t) - t[0], or [0, t] for a bare number (t[0] exists)
NormalizeT(t) ==
  IF IsArrayLike(t) THEN Arr(Shift(t.s, t.s[1])) ELSE Arr(<<0, t.v>>)

\* x + np.zeros(pulses); np.zeros raises ValueError for a negative size
Broadcast(x, pulses) == Arr(Const(pulses, x))

NormalizeFOffset(f_offset, pulses) ==
  IF IsNone(f_offset) THEN Broadcast(0, pulses)
  ELSE IF IsArrayLike(f_offset) THEN f_offset
  ELSE Broadcast(f_offset.v, pulses)

NormalizePrp(prp, pulse_length, pulses) ==
  IF IsNone(prp) THEN Broadcast(pulse_length, pulses)
  ELSE IF IsArrayLike(prp) THEN prp
  ELSE Broadcast(prp.v, pulses)

\* variant: np.cumsum(prp), the subtraction of prp[0] left out
PulseStartTimeUnshifted(prp) == CumSum(prp)

\* variant: the sum of the periods before each pulse, [0, prp[0], ...]
PulseStartTimePrior(prp) ==
  [i \in 1..Len(prp) |-> IF i = 1 THEN 0 ELSE CumSum(prp)[i - 1]]

\* np.cumsum(prp) - prp[0]
PulseStartTime(prp) == Shift(CumSum(prp), prp[1])

\* variant: the check of min(prp) against pulse_length left out
validate_waveform_prop_no_min(w) ==
  IF Len(w.f.s) # Len(w.t.s) THEN "ValueError"
  ELSE IF Len(w.f_offset.s) # w.pulses THEN "ValueError"
  ELSE IF Len(w.prp.s) # w.pulses THEN "ValueError"
  ELSE "none"

\* variant: the check of len(f) against len(t) left out
validate_waveform_prop_no_ft(w) ==
  IF Len(w.f_offset.s) # w.pulses THEN "ValueError"
  ELSE IF Len(w.prp.s) # w.pulses THEN "ValueError"
  ELSE IF SeqMin(w.prp.s) < w.pulse_length THEN "ValueError"
  ELSE "none"

\* the exception validate_waveform_prop raises, "none" when it returns
validate_waveform_prop(w) ==
  IF Len(w.f.s) # Len(w.t.s) THEN "ValueError"
  ELSE IF Len(w.f_offset.s) # w.pulses THEN "ValueError"
  ELSE IF Len(w.prp.s) # w.pulses THEN "ValueError"
  ELSE IF SeqMin(w.prp.s) < w.pulse_length THEN "ValueError"
  ELSE "none"

\* lines 204-247 in order; each raise leaves the keys stored before it
WaveformOutcome(a) ==
  LET f == NormalizeF(a.f)
  IN
  IF IsArrayLike(a.t) /\ Len(a.t.s) = 0
  THEN Outcome(<<>>, "IndexError")                     \* t[0], line 212
  ELSE
  LET t  == NormalizeT(a.t)
      d1 == [f |-> f, t |-> t]
  IN
  IF Len(f.s) = 0
  THEN Outcome(d1, "ValueError")                       \* np.max(f), line 218
  ELSE
  LET pulse_length == t.s[Len(t.s)]
      d2 == [f |-> f, t |-> t,
             bandwidth |-> SeqMax(f.s) - SeqMin(f.s),
             pulse_length |-> pulse_length, pulses |-> a.pulses]
  IN
  IF ~IsArrayLike(a.f_offset) /\ a.pulses < 0
  THEN Outcome(d2, "ValueError")                       \* np.zeros, 225 / 230
  ELSE
  LET f_offset == NormalizeFOffset(a.f_offset, a.pulses)
      d3 == [f |-> f, t |-> t, bandwidth |-> d2.bandwidth,
             pulse_length |-> pulse_length, pulses |-> a.pulses,
             f_offset |-> f_offset]
  IN
  IF ~IsArrayLike(a.prp) /\ a.pulses < 0
  THEN Outcome(d3, "ValueError")                       \* np.zeros, 236 / 241
  ELSE
  LET prp == NormalizePrp(a.prp, pulse_length, a.pulses)
      d4  == [f |-> f, t |-> t, bandwidth |-> d2.bandwidth,
              pulse_length |-> pulse_length, pulses |-> a.pulses,
              f_offset |-> f_offset, prp |-> prp]
  IN
  IF Len(prp.s) = 0
  THEN Outcome(d4, "IndexError")                       \* prp[0], line 245
  ELSE
  LET d5 == [f |-> f, t |-> t, bandwidth |-> d2.bandwidth,
             pulse_length |-> pulse_length, pulses |-> a.pulses,
             f_offset |-> f_offset, prp |-> prp,
             pulse_start_time |-> Arr(PulseStartTime(prp.s))]
  IN  Outcome(d5, validate_waveform_prop(d5))          \* line 247

WaveformStage ==
  /\ pc = "waveform"
  /\ err = "none"
  /\ LET o == WaveformOutcome(args)
     IN  /\ waveform_prop' = o.d
         /\ err' = o.e
         /\ pc' = IF o.e = "none" THEN "channels" ELSE "waveform"
  /\ UNCHANGED <<args, rf_prop, txch_prop, tx_idx, txchannel_prop, returned>>

----------------------------------------------------------------------------
(* Waveform modulation: process_waveform_modulation.                       *)

\* np.ones_like(x) / np.zeros_like(x): the shape of x, 0-d for a number
FullLike(x, c) == IF x.k = "arr" THEN Arr(Const(Len(x.s), c)) ELSE Arr0(c)

\* np.array(x) for an array-like x, [x, x] for a bare number
Expand(x) == IF IsArrayLike(x) THEN x ELSE Arr(<<x.v, x.v>>)

\* np.array(mod_t) for an array-like mod_t, [0, mod_t] for a bare number
ExpandModT(mod_t) == IF IsArrayLike(mod_t) THEN mod_t ELSE Arr(<<0, mod_t.v>>)

\* amp * np.exp(1j * phs / 180 * np.pi), elementwise
Polar(amp, phs) == [i \in 1..Len(amp) |-> <<amp[i], phs[i]>>]

Disabled == [enabled |-> FALSE, var |-> None, t |-> None]

\* lines 314-318: the amplitude and the phase after defaulting
DefaultAmp(amp, phs) ==
  IF ~IsNone(phs) /\ IsNone(amp) THEN FullLike(phs, 1) ELSE amp

DefaultPhs(amp, phs) ==
  IF ~(~IsNone(phs) /\ IsNone(amp)) /\ IsNone(phs) /\ ~IsNone(amp)
  THEN FullLike(amp, 0) ELSE phs

process_waveform_modulation(mod_t, amp_in, phs_in) ==
  LET amp0 == DefaultAmp(amp_in, phs_in)
      phs0 == DefaultPhs(amp_in, phs_in)
  IN
  IF IsNone(mod_t) \/ IsNone(amp0) \/ IsNone(phs0)
  THEN Outcome(Disabled, "none")                       \* line 320
  ELSE
  LET amp == Expand(amp0)
      phs == Expand(phs0)
      t   == ExpandModT(mod_t)
  IN
  IF ~HasLen(amp) \/ ~HasLen(phs)
  THEN Outcome(None, "TypeError")                      \* len(), line 337
  ELSE IF Len(amp.s) # Len(phs.s)
  THEN Outcome(None, "ValueError")                     \* line 338
  ELSE
  LET mod_var == Polar(amp.s, phs.s)
  IN
  IF Len(t.s) # Len(mod_var)
  THEN Outcome(None, "ValueError")                     \* line 343
  ELSE Outcome([enabled |-> TRUE, var |-> Arr(mod_var), t |-> t], "none")

----------------------------------------------------------------------------
(* Pulse modulation: process_pulse_modulation.                             *)

\* variant: pulse_phs checked before pulse_amp
process_pulse_modulation_phs_first(pulse_amp, pulse_phs, pulses) ==
  IF ~HasLen(pulse_phs) THEN Outcome(<<>>, "TypeError")
  ELSE IF Len(pulse_phs.s) # pulses THEN Outcome(<<>>, "ValueError")
  ELSE IF ~HasLen(pulse_amp) THEN Outcome(<<>>, "TypeError")
  ELSE IF Len(pulse_amp.s) # pulses THEN Outcome(<<>>, "ValueError")
  ELSE Outcome(Polar(pulse_amp.s, pulse_phs.s), "none")

process_pulse_modulation(pulse_amp, pulse_phs, pulses) ==
  IF ~HasLen(pulse_amp) THEN Outcome(<<>>, "TypeError")         \* len(), 367
  ELSE IF Len(pulse_amp.s) # pulses THEN Outcome(<<>>, "ValueError")
  ELSE IF ~HasLen(pulse_phs) THEN Outcome(<<>>, "TypeError")    \* len(), 369
  ELSE IF Len(pulse_phs.s) # pulses THEN Outcome(<<>>, "ValueError")
  ELSE Outcome(Polar(pulse_amp.s, pulse_phs.s), "none")

----------------------------------------------------------------------------
(* Channels: __init__ lines 249-252 and process_txchannel_prop.            *)

\* a channel dictionary; None stands for a key that is not there
DefaultChannel ==
  [location |-> Arr(<<0, 0, 0>>), polarization |-> None, delay |-> None,
   grid |-> None, mod_t |-> None, amp |-> None, phs |-> None,
   pulse_amp |-> None, pulse_phs |-> None,
   azimuth_angle |-> None, azimuth_pattern |-> None,
   elevation_angle |-> None, elevation_pattern |-> None]

\* tx_element.get(key, default)
Get(x, default) == IF IsNone(x) THEN default ELSE x

\* lines 249-250
Channels(a) ==
  IF IsNone(a.channels) THEN <<DefaultChannel>> ELSE a.channels.s

\* lines 390-418
EmptyTxchProp(size, pulses) ==
  [size |-> size,
   delay |-> Const(size, 0),
   grid |-> Const(size, 0),
   locations |-> Const(size, <<0, 0, 0>>),
   polarization |-> Const(size, <<0, 0, 0>>),
   waveform_mod |-> <<>>,
   pulse_mod |-> Const(size, Const(pulses, <<1, 0>>)),
   az_patterns |-> <<>>, az_angles |-> <<>>,
   el_patterns |-> <<>>, el_angles |-> <<>>,
   antenna_gains |-> Const(size, 0)]

ChannelSetup ==
  /\ pc = "channels"
  /\ err = "none"
  /\ txch_prop' = EmptyTxchProp(Len(Channels(args)), waveform_prop.pulses)
  /\ tx_idx' = 0
  /\ pc' = "loop"
  /\ UNCHANGED <<args, err, rf_prop, waveform_prop, txchannel_prop, returned>>

\* variant: the gain read at the first angle instead of the peak
AntennaGainFirst(az_pattern) == az_pattern[1]

\* the antenna peak gain: np.max(az_pattern), line 451
AntennaGain(az_pattern) == SeqMax(az_pattern)

\* the stored pattern: pattern - np.max(pattern), lines 452 and 465
NormalizePattern(pattern) == Shift(pattern, SeqMax(pattern))

\* one pass of the loop body, lines 421-468, for channel i (from 1)
ChannelOutcome(x, c, i, pulses) ==
  LET x1 == [x EXCEPT !.delay[i] = Get(c.delay, Num(0)).v,
                      !.grid[i] = Get(c.grid, Num(1)).v]
  IN
  IF IsNone(c.location)
  THEN Outcome(x1, "TypeError")                        \* line 424
  ELSE
  LET x2 == [x1 EXCEPT !.locations[i] = c.location.s,
                       !.polarization[i] =
                          Get(c.polarization, Arr(<<0, 0, 1>>)).s]
      wm == process_waveform_modulation(c.mod_t, c.amp, c.phs)
  IN
  IF wm.e # "none" THEN Outcome(x2, wm.e)
  ELSE
  LET x3 == [x2 EXCEPT !.waveform_mod = Append(@, wm.d)]
      pm == process_pulse_modulation(
              Get(c.pulse_amp, Arr(Const(pulses, 1))),
              Get(c.pulse_phs, Arr(Const(pulses, 0))), pulses)
  IN
  IF pm.e # "none" THEN Outcome(x3, pm.e)
  ELSE
  LET x4 == [x3 EXCEPT !.pulse_mod[i] = pm.d]
      az_angle   == Get(c.azimuth_angle, Arr(<<-90, 90>>)).s
      az_pattern == Get(c.azimuth_pattern, Arr(<<0, 0>>)).s
  IN
  IF Len(az_angle) # Len(az_pattern)
  THEN Outcome(x4, "ValueError")                       \* line 446
  ELSE IF Len(az_pattern) = 0
  THEN Outcome(x4, "ValueError")                       \* np.max, line 451
  ELSE
  LET x5 == [x4 EXCEPT !.antenna_gains[i] = AntennaGain(az_pattern),
                       !.az_angles = Append(@, az_angle),
                       !.az_patterns =
                          Append(@, NormalizePattern(az_pattern))]
      el_angle   == Get(c.elevation_angle, Arr(<<-90, 90>>)).s
      el_pattern == Get(c.elevation_pattern, Arr(<<0, 0>>)).s
  IN
  IF Len(el_angle) # Len(el_pattern)
  THEN Outcome(x5, "ValueError")                       \* line 461
  ELSE IF Len(el_pattern) = 0
  THEN Outcome(x5, "ValueError")                       \* np.max, line 465
  ELSE Outcome([x5 EXCEPT !.el_angles = Append(@, el_angle),
                          !.el_patterns =
                             Append(@, NormalizePattern(el_pattern))],
               "none")

ProcessChannel ==
  /\ pc = "loop"
  /\ err = "none"
  /\ tx_idx < txch_prop.size
  /\ LET o == ChannelOutcome(txch_prop, Channels(args)[tx_idx + 1],
                             tx_idx + 1, waveform_prop.pulses)
     IN  /\ txch_prop' = o.d
         /\ err' = o.e
         /\ tx_idx' = IF o.e = "none" THEN tx_idx + 1 ELSE tx_idx
  /\ UNCHANGED <<args, pc, rf_prop, waveform_prop, txchannel_prop, returned>>

\* process_txchannel_prop returns and line 252 stores its result
Return ==
  /\ pc = "loop"
  /\ err = "none"
  /\ tx_idx = txch_prop.size
  /\ txchannel_prop' = txch_prop
  /\ returned' = TRUE
  /\ pc' = "done"
  /\ UNCHANGED <<args, err, rf_prop, waveform_prop, txch_prop, tx_idx>>

----------------------------------------------------------------------------
(* The enumerated calls.  Each family varies the arguments of one stage    *)
(* over every kind and length and holds the others to a few values; the    *)
(* last family crosses a few values of every stage.                        *)

\* 1, 2, ..., k scaled by c: one sequence of each length
Ramp(k, c) == [i \in 1..k |-> c * i]

Ramps(c, n) == {Arr(Ramp(k, c)) : k \in 0..n}

ArrsUpTo(S, n) == {Arr(s) : s \in SeqsUpTo(S, n)}

\* Transmitter(f=1, t=2): every other argument at its default
DefaultArgs ==
  [f |-> Num(1), t |-> Num(2), tx_power |-> 0, pulses |-> 1, prp |-> None,
   f_offset |-> None, pn_f |-> None, pn_power |-> None, channels |-> None]

WaveCall(a) ==
  \E f \in {Num(1)} \cup Ramps(1, MaxLen),
     t \in {Num(1), Num(2)} \cup ArrsUpTo({0, 2}, MaxLen),
     n \in (-1)..MaxPulses,
     prp \in {None, Num(1), Num(2)} \cup ArrsUpTo({1, 2}, MaxPulses),
     fo \in {None, Num(5)} \cup Ramps(5, MaxPulses) :
    a = [DefaultArgs EXCEPT !.f = f, !.t = t, !.pulses = n, !.prp = prp,
                            !.f_offset = fo]

\* a few waveforms: accepted with 1 and 2 pulses, len(f) # len(t),
\* pulses = 0, an empty prp
FewWaves ==
  {DefaultArgs,
   [DefaultArgs EXCEPT !.pulses = 2, !.prp = Arr(<<3, 2>>)],
   [DefaultArgs EXCEPT !.f = Arr(<<0, 1>>), !.t = Arr(<<0>>)],
   [DefaultArgs EXCEPT !.pulses = 0],
   [DefaultArgs EXCEPT !.prp = Arr(<<>>)]}

RfCall(a) ==
  \E w \in FewWaves,
     p \in {0, 10},
     pn_f \in {None} \cup ArrsUpTo({1, 2}, MaxLen),
     pn_power \in {None} \cup ArrsUpTo({-80, -90}, MaxLen) :
    a = [w EXCEPT !.tx_power = p, !.pn_f = pn_f, !.pn_power = pn_power]

FewRfs ==
  {[tx_power |-> 0, pn_f |-> None, pn_power |-> None],
   [tx_power |-> 10, pn_f |-> Arr(<<1, 2>>), pn_power |-> None]}

OneChannel(c) == Arr(<<c>>)

ModCall(a) ==
  \E m \in {None, Num(4)} \cup Ramps(1, MaxLen),
     am \in {None, Num(2)} \cup ArrsUpTo({1, 2}, MaxLen),
     p \in {None, Num(90)} \cup ArrsUpTo({0, 90}, MaxLen) :
    a = [DefaultArgs EXCEPT !.channels =
           OneChannel([DefaultChannel EXCEPT !.mod_t = m, !.amp = am,
                                             !.phs = p])]

Patterns == {None} \cup ArrsUpTo({-2, 0, 3}, MaxLen)

Angles == {None} \cup Ramps(30, MaxLen)

PatternCall(a) ==
  \E aa \in Angles, ap \in Patterns, ea \in Angles, ep \in Patterns :
    a = [DefaultArgs EXCEPT !.channels =
           OneChannel([DefaultChannel EXCEPT
                         !.azimuth_angle = aa, !.azimuth_pattern = ap,
                         !.elevation_angle = ea, !.elevation_pattern = ep])]

PulseModCall(a) ==
  \E w \in FewWaves,
     pa \in {None, Num(2)} \cup ArrsUpTo({1, 2}, MaxPulses),
     pp \in {None, Num(90)} \cup ArrsUpTo({0, 90}, MaxPulses) :
    a = [w EXCEPT !.channels =
           OneChannel([DefaultChannel EXCEPT !.pulse_amp = pa,
                                             !.pulse_phs = pp])]

\* a few channels: the defaults, and one departure from them each
FewChannels ==
  {DefaultChannel,
   [DefaultChannel EXCEPT !.location = None],
   [DefaultChannel EXCEPT !.location = Arr(<<1, 2, 3>>),
                          !.polarization = Arr(<<0, 1, 0>>),
                          !.delay = Num(7), !.grid = Num(2)],
   [DefaultChannel EXCEPT !.pulse_amp = Num(2)],
   [DefaultChannel EXCEPT !.pulse_phs = Num(90)],
   [DefaultChannel EXCEPT !.pulse_amp = Arr(<<2, 3>>)],
   [DefaultChannel EXCEPT !.pulse_phs = Arr(<<90>>)],
   [DefaultChannel EXCEPT !.azimuth_pattern = Arr(<<3, 5>>),
                          !.elevation_pattern = Arr(<<-2, 4>>)],
   [DefaultChannel EXCEPT !.azimuth_pattern = Arr(<<3, 5>>),
                          !.elevation_pattern = Arr(<<1, 0>>)],
   [DefaultChannel EXCEPT !.mod_t = Num(4), !.phs = Num(90)],
   [DefaultChannel EXCEPT !.mod_t = Num(4), !.amp = Arr(<<2, 1>>)]}

ChannelCall(a) ==
  \E w \in FewWaves, rf \in FewRfs,
     ch \in {None} \cup ArrsUpTo(FewChannels, MaxChannels) :
    a = [w EXCEPT !.tx_power = rf.tx_power, !.pn_f = rf.pn_f,
                  !.pn_power = rf.pn_power, !.channels = ch]

----------------------------------------------------------------------------
(* The constructor.                                                        *)

\* lines 195-197: the three dictionaries start empty
Init ==
  /\ \/ WaveCall(args)
     \/ RfCall(args)
     \/ ModCall(args)
     \/ PatternCall(args)
     \/ PulseModCall(args)
     \/ ChannelCall(args)
  /\ pc = "rf"
  /\ err = "none"
  /\ rf_prop = <<>>
  /\ waveform_prop = <<>>
  /\ txch_prop = <<>>
  /\ tx_idx = 0
  /\ txchannel_prop = <<>>
  /\ returned = FALSE

Next ==
  \/ RfStage
  \/ WaveformStage
  \/ ChannelSetup
  \/ ProcessChannel
  \/ Return

Spec == Init /\ [][Next]_vars

----------------------------------------------------------------------------
(* Properties.  Sequences count from 1 here and from 0 in the source:      *)
(* pulse i of the source is entry i + 1.                                   *)

\* the length a scalar-or-sequence argument has once normalized
NormLen(x) == IF x.k = "arr" THEN Len(x.s) ELSE 2

\* the pulse length the arguments ask for: t[-1] - t[0], or a bare t
AskedPulseLength(t) ==
  IF t.k = "arr" THEN t.s[Len(t.s)] - t.s[1] ELSE t.v

\* the arguments break one of the waveform invariants
ArgsBreakWaveform(a) ==
  \/ a.t.k = "arr" /\ Len(a.t.s) = 0
  \/ NormLen(a.f) # NormLen(a.t)
  \/ a.pulses < 1
  \/ a.f_offset.k = "arr" /\ Len(a.f_offset.s) # a.pulses
  \/ a.prp.k = "arr" /\ Len(a.prp.s) # a.pulses
  \/ /\ ~(a.t.k = "arr" /\ Len(a.t.s) = 0)
     /\ \/ a.prp.k = "num" /\ a.prp.v < AskedPulseLength(a.t)
        \/ a.prp.k = "arr"
           /\ \E i \in 1..Len(a.prp.s) : a.prp.s[i] < AskedPulseLength(a.t)

\* C1: a constructed transmitter has len(f) = len(t), t[0] = 0,
\* pulses >= 1, len(f_offset) = len(prp) = pulses and every prp entry
\* >= pulse_length = t[-1]; arguments that break one of these never
\* yield a transmitter.
C1_WaveformInvariants ==
  returned =>
    LET w == waveform_prop
    IN  /\ Len(w.f.s) = Len(w.t.s)
        /\ w.t.s[1] = 0
        /\ w.pulses >= 1
        /\ Len(w.f_offset.s) = w.pulses
        /\ Len(w.prp.s) = w.pulses
        /\ w.pulse_length = w.t.s[Len(w.t.s)]
        /\ \A i \in 1..Len(w.prp.s) : w.prp.s[i] >= w.pulse_length
        /\ ~ArgsBreakWaveform(args)

C1_Witness ==
  /\ returned
  /\ args.t.k = "arr" /\ args.t.s[1] # 0
  /\ args.prp.k = "arr" /\ Len(args.prp.s) >= 2
  /\ args.f_offset.k = "arr"

NonUniform(prp) == \E i \in 1..Len(prp) : prp[i] # prp[1]

\* the sum of the periods of the pulses before pulse i (entry i)
RECURSIVE SumBefore(_, _)
SumBefore(prp, i) == IF i <= 1 THEN 0 ELSE SumBefore(prp, i - 1) + prp[i - 1]

\* C2 as stated: with a non-uniform prp the first pulse does not start at
\* 0, and every pulse starts at the sum of the periods before it.
C2_AsStated ==
  (returned /\ NonUniform(waveform_prop.prp.s)) =>
    LET w == waveform_prop
    IN  /\ w.pulse_start_time.s[1] # 0
        /\ \A i \in 1..w.pulses :
             w.pulse_start_time.s[i] = SumBefore(w.prp.s, i)

\* C2, amended: the first pulse starts at 0 for every accepted prp,
\* uniform or not, and a pulse starts at the sum of the periods before it
\* exactly when its own period equals prp[0].
C2_FirstPulseAtZero ==
  returned =>
    LET w == waveform_prop
    IN  /\ w.pulse_start_time.s[1] = 0
        /\ \A i \in 1..w.pulses :
             (w.pulse_start_time.s[i] = SumBefore(w.prp.s, i))
               <=> (w.prp.s[i] = w.prp.s[1])

C2_Witness ==
  /\ returned
  /\ NonUniform(waveform_prop.prp.s)
  /\ waveform_prop.pulses >= 3
  /\ waveform_prop.prp.s[3] = waveform_prop.prp.s[1]

\* the prp array the arguments ask for
AskedPrp(a) ==
  IF a.prp.k = "none" THEN Const(a.pulses, AskedPulseLength(a.t))
  ELSE IF a.prp.k = "num" THEN Const(a.pulses, a.prp.v)
  ELSE a.prp.s

\* C3: for every accepted input pulse_start_time has pulses entries, the
\* first is prp[0] - prp[0] and each next one adds that pulse's own prp,
\* over the normalized prp; without prp, entry i is i * pulse_length.
C3_PulseStartTime ==
  returned =>
    LET w   == waveform_prop
        pst == w.pulse_start_time.s
    IN  /\ w.prp.s = AskedPrp(args)
        /\ Len(pst) = w.pulses
        /\ pst[1] = w.prp.s[1] - w.prp.s[1]
        /\ \A i \in 2..w.pulses : pst[i] = pst[i - 1] + w.prp.s[i]
        /\ args.prp.k = "none" =>
             \A i \in 1..w.pulses : pst[i] = (i - 1) * w.pulse_length

C3_Witness ==
  /\ returned
  /\ waveform_prop.pulses >= 3
  /\ args.prp.k = "none"
  /\ waveform_prop.pulse_length > 0

\* channel i's waveform modulation was processed and its record stored
ModDone(i) ==
  pc \in {"loop", "done"} /\ Len(txch_prop.waveform_mod) >= i

\* process_waveform_modulation raised for channel i: the loop stopped in
\* pass i after the location was stored and before the record was
ModRaised(i) ==
  /\ pc = "loop" /\ err # "none" /\ tx_idx = i - 1
  /\ Len(txch_prop.waveform_mod) = i - 1
  /\ ~IsNone(Channels(args)[i].location)

\* C4 as stated: a channel with phs and no amp is processed with an
\* all-ones amp as long as the normalized phs, one with amp and no phs with
\* an all-zeros phs as long as the normalized amp, and neither fails (a
\* mod_t of another length aside).
C4_AsStated ==
  \A i \in 1..Len(Channels(args)) :
    LET c == Channels(args)[i]
        only_phs == ~IsNone(c.phs) /\ IsNone(c.amp)
        only_amp == IsNone(c.phs) /\ ~IsNone(c.amp)
        given == IF only_phs THEN c.phs ELSE c.amp
    IN  (only_phs \/ only_amp) =>
          /\ ModRaised(i) =>
               /\ err = "ValueError"
               /\ NormLen(c.mod_t) # NormLen(given)
          /\ (ModDone(i) /\ txch_prop.waveform_mod[i].enabled) =>
               LET var == txch_prop.waveform_mod[i].var.s
               IN  /\ Len(var) = NormLen(given)
                   /\ only_phs => \A j \in 1..Len(var) : var[j][1] = 1
                   /\ only_amp => \A j \in 1..Len(var) : var[j][2] = 0

\* C5 as stated: the disabled record is returned, without raising, exactly
\* when mod_t is absent or amp and phs both are; otherwise the record is
\* enabled with var and t of one length, or a ValueError reports a length
\* mismatch.
C5_AsStated ==
  \A i \in 1..Len(Channels(args)) :
    LET c == Channels(args)[i]
        off == IsNone(c.mod_t) \/ (IsNone(c.amp) /\ IsNone(c.phs))
        amp_len == NormLen(IF IsNone(c.amp) THEN c.phs ELSE c.amp)
        phs_len == NormLen(IF IsNone(c.phs) THEN c.amp ELSE c.phs)
    IN  /\ ModDone(i) =>
             LET wm == txch_prop.waveform_mod[i]
             IN  /\ off <=> ~wm.enabled
                 /\ ~wm.enabled => IsNone(wm.var) /\ IsNone(wm.t)
                 /\ wm.enabled =>
                      /\ Len(wm.var.s) = Len(wm.t.s)
                      /\ Len(wm.var.s) = amp_len
                      /\ Len(wm.var.s) = phs_len
        /\ ModRaised(i) =>
             /\ ~off
             /\ err = "ValueError"
             /\ amp_len # phs_len \/ NormLen(c.mod_t) # amp_len

\* a largest entry of s
IsMaxOf(m, s) ==
  (\E j \in 1..Len(s) : s[j] = m) /\ (\A j \in 1..Len(s) : s[j] <= m)

RawAzimuthPattern(c) == Get(c.azimuth_pattern, Arr(<<0, 0>>)).s

\* C6: in a constructed transmitter every channel's stored azimuth
\* pattern is the raw one minus its maximum and peaks at exactly 0, its
\* antenna gain is the raw azimuth maximum, its stored elevation pattern
\* peaks at 0, and channels with one azimuth pattern have one gain
\* whatever their elevation patterns.
C6_PatternNormalization ==
  returned =>
    LET x == txchannel_prop
    IN  /\ \A i \in 1..x.size :
             LET raw == RawAzimuthPattern(Channels(args)[i])
                 az  == x.az_patterns[i]
             IN  /\ IsMaxOf(x.antenna_gains[i], raw)
                 /\ Len(az) = Len(raw)
                 /\ \A j \in 1..Len(az) : az[j] = raw[j] - x.antenna_gains[i]
                 /\ IsMaxOf(0, az)
                 /\ IsMaxOf(0, x.el_patterns[i])
        /\ \A i, k \in 1..x.size :
             RawAzimuthPattern(Channels(args)[i])
               = RawAzimuthPattern(Channels(args)[k])
             => x.antenna_gains[i] = x.antenna_gains[k]

C6_Witness ==
  /\ returned
  /\ txchannel_prop.size = 2
  /\ txchannel_prop.antenna_gains = <<5, 5>>
  /\ txchannel_prop.az_patterns[1] = <<-2, 0>>
  /\ txchannel_prop.el_patterns[1] # txchannel_prop.el_patterns[2]
  /\ Channels(args)[1].elevation_pattern.s = <<-2, 4>>

\* C7 as stated: ValueError is the only kind of exception that leaves the
\* constructor.
C7_AsStated == err \in {"none", "ValueError"}

C8_Inv ==
  /\ ArgsBreakWaveform(args) =>
       /\ pc \in {"rf", "waveform"}
       /\ tx_idx = 0
       /\ txch_prop = <<>>
  /\ err # "none" => ~returned /\ txchannel_prop = <<>>
  /\ returned <=> pc = "done"

C8_Step ==
  /\ err = "none"
  /\ pc = "rf" => rf_prop = <<>> /\ waveform_prop = <<>> /\ txch_prop = <<>>
  /\ pc = "waveform" => rf_prop # <<>> /\ waveform_prop = <<>> /\ txch_prop = <<>>
  /\ pc' # pc =>
       <<pc, pc'>> \in {<<"rf", "waveform">>, <<"waveform", "channels">>,
                        <<"channels", "loop">>, <<"loop", "done">>}
  /\ tx_idx' # tx_idx => pc = "loop" /\ tx_idx' = tx_idx + 1

\* C8: the stages run in the order RF properties, waveform, channels, and
\* nothing runs after the first failure; with inconsistent waveform
\* arguments no channel is ever processed, and a failed construction
\* returns no object.
C8_StageOrder == [](C8_Inv) /\ [][C8_Step]_vars

C8_Witness ==
  /\ pc = "waveform" /\ err = "ValueError"
  /\ NormLen(args.f) # NormLen(args.t)
  /\ ~IsNone(args.channels) /\ Len(args.channels.s) = 2
  /\ tx_idx = 0

\* C9 as stated: a constructed transmitter has at least one channel: the
\* default one without channels, as many as the list holds otherwise.
C9_AsStated ==
  returned =>
    LET x == txchannel_prop
    IN  /\ x.size >= 1
        /\ IsNone(args.channels) =>
             /\ x.size = 1
             /\ x.locations = <<(<<0, 0, 0>>)>>
             /\ x.polarization = <<(<<0, 0, 1>>)>>
             /\ x.az_angles = <<(<<-90, 90>>)>>
             /\ x.az_patterns = <<(<<0, 0>>)>>
             /\ x.antenna_gains = <<0>>
        /\ ~IsNone(args.channels) => x.size = Len(args.channels.s)

\* the phase-noise arguments are both absent, or both there and as long
RfPaired(a) ==
  \/ IsNone(a.pn_f) /\ IsNone(a.pn_power)
  \/ /\ ~IsNone(a.pn_f) /\ ~IsNone(a.pn_power)
     /\ Len(a.pn_f.s) = Len(a.pn_power.s)

\* C10: the RF stage succeeds exactly for paired phase-noise arguments
\* (both absent, or both given with one length, empty included), raises
\* ValueError otherwise, and on success holds tx_power, pn_f and pn_power
\* as given.
C10_RfValidation ==
  (pc # "rf" \/ err # "none") =>
    /\ pc = "rf" <=> ~RfPaired(args)
    /\ pc = "rf" => err = "ValueError" /\ ~returned
    /\ pc # "rf" =>
         /\ rf_prop.tx_power = args.tx_power
         /\ rf_prop.pn_f = args.pn_f
         /\ rf_prop.pn_power = args.pn_power

C10_Witness ==
  /\ returned
  /\ args.tx_power = 10
  /\ args.pn_f = Arr(<<1, 2>>)
  /\ args.pn_power = Arr(<<-80, -90>>)

\* the loop stopped in pass i after channel i's waveform modulation
\* record was stored
RaisedAfterMod(i) ==
  /\ pc = "loop" /\ err # "none" /\ tx_idx = i - 1
  /\ Len(txch_prop.waveform_mod) = i

\* a sequence was supplied and its length is not pulses
WrongLength(x, pulses) == x.k = "arr" /\ Len(x.s) # pulses

\* nothing was supplied, or a sequence of length pulses
FitsPulses(x, pulses) == IsNone(x) \/ (x.k = "arr" /\ Len(x.s) = pulses)

\* C11: in a constructed transmitter the pulse-modulation matrix has one
\* row per channel, row i is channel i's, every row has pulses entries,
\* and an absent pulse_amp counts as all ones, an absent pulse_phs as all
\* zeros; a pulse_amp sequence of another length ends the channel's pass
\* in ValueError whatever pulse_phs is, and so does a pulse_phs sequence
\* of another length once pulse_amp has passed.
C11_PulseModulation ==
  /\ returned =>
       LET x == txchannel_prop
           n == waveform_prop.pulses
       IN  /\ Len(x.pulse_mod) = x.size
           /\ x.size = Len(Channels(args))
           /\ \A i \in 1..x.size :
                LET c == Channels(args)[i]
                    row == x.pulse_mod[i]
                IN  /\ Len(row) = n
                    /\ FitsPulses(c.pulse_amp, n)
                    /\ FitsPulses(c.pulse_phs, n)
                    /\ \A j \in 1..n :
                         /\ row[j][1] = IF IsNone(c.pulse_amp) THEN 1
                                        ELSE c.pulse_amp.s[j]
                         /\ row[j][2] = IF IsNone(c.pulse_phs) THEN 0
                                        ELSE c.pulse_phs.s[j]
  /\ pc \in {"loop", "done"} =>
       \A i \in 1..Len(Channels(args)) :
         LET c == Channels(args)[i]
             n == waveform_prop.pulses
             rejected ==
               \/ WrongLength(c.pulse_amp, n)
               \/ FitsPulses(c.pulse_amp, n) /\ WrongLength(c.pulse_phs, n)
         IN  rejected =>
               /\ tx_idx < i
               /\ RaisedAfterMod(i) => err = "ValueError"

C11_Witness ==
  /\ returned
  /\ txchannel_prop.size = 2
  /\ waveform_prop.pulses = 2
  /\ IsNone(Channels(args)[1].pulse_amp)
  /\ txchannel_prop.pulse_mod[1] = <<(<<1, 0>>), (<<1, 0>>)>>
  /\ txchannel_prop.pulse_mod[2] = <<(<<2, 0>>), (<<3, 0>>)>>

\* a pulse_amp of the wrong length met a pulse_phs that is a bare number
C11_RejectedWitness ==
  /\ RaisedAfterMod(1) /\ err = "ValueError"
  /\ WrongLength(Channels(args)[1].pulse_amp, waveform_prop.pulses)
  /\ Channels(args)[1].pulse_phs.k = "num"

====
